---- MODULE Spec2Model ----
(***************************************************************************)
(* The order book reducer of src/state/reducers/orderBook.reducer.ts as a  *)
(* state machine: the store holds one OrderBookState, every dispatched     *)
(* action runs orderBookReducer(previousState, action) and the store keeps *)
(* the returned state; when the reducer throws, the store keeps the        *)
(* previous state.                                                         *)
(*                                                                         *)
(* A JavaScript Map is modelled as the sequence of its values in insertion *)
(* order, with at most one value per key (price).                          *)
(***************************************************************************)
EXTENDS Integers, Sequences, FiniteSets, TLC

VARIABLES state, prevState, action, actionAfter, outcome, uniqueSoFar

vars == <<state, prevState, action, actionAfter, outcome, uniqueSoFar>>

(* ------------------------------ bounds --------------------------------- *)

\* prices are 1..MaxPrice
MaxPrice == 2
\* sizes are 0..MaxSize
MaxSize == 2
\* a snapshot or delta payload carries at most MaxEntries levels, both sides together
MaxEntries == 2
\* a cursor update carries an index in 0..MaxIndex
MaxIndex == 1

Prices == 1..MaxPrice
Sizes == 0..MaxSize
Pairs == Prices \X Sizes
ProductIds == {"PI_XBTUSD", "PI_ETHUSD"}
NumLevelsValues == {MaxPrice}

PairLists(n) == UNION {[1..k -> Pairs] : k \in 0..n}

SidePayloads ==
  {sp \in PairLists(MaxEntries) \X PairLists(MaxEntries) :
     Len(sp[1]) + Len(sp[2]) <= MaxEntries}

(* --------------------------- helpers (util) ---------------------------- *)

\* branded-number casts of types/util.types
asNumber(x) == x
asTotal(x) == x

\* assert(cond) of types/util.types: TRUE when the assertion passes
assert(cond) == cond

Max(a, b) == IF a >= b THEN a ELSE b
Min(a, b) == IF a <= b THEN a ELSE b

(* ------------------------------ Map ------------------------------------ *)

MapHas(m, price) == \E i \in 1..Len(m) : m[i].price = price

\* Map.prototype.set: an existing key keeps its position, a new key is appended
MapSet(m, price, value) ==
  IF MapHas(m, price)
  THEN [i \in 1..Len(m) |-> IF m[i].price = price THEN value ELSE m[i]]
  ELSE Append(m, value)

\* Map.prototype.delete
MapDelete(m, price) == SelectSeq(m, LAMBDA v : v.price # price)

(* -------------------------- Array.prototype.sort ----------------------- *)

\* both sides sorted with the comparator of the asks
CompareAscending(order, priceA, priceB) == priceA - priceB

\* the comparators of the source: priceA - priceB (asks), priceB - priceA (bids)
Compare(order, priceA, priceB) ==
  IF order = "asc" THEN priceA - priceB ELSE priceB - priceA

\* Array.prototype.sort is stable: x goes behind every element that does not
\* compare after it.  The elements are [price, ...] tuples.
RECURSIVE InsertSorted(_, _, _)
InsertSorted(order, x, s) ==
  IF s = <<>> THEN <<x>>
  ELSE IF Compare(order, Head(s)[1], x[1]) <= 0
       THEN <<Head(s)>> \o InsertSorted(order, x, Tail(s))
       ELSE <<x>> \o s

RECURSIVE SortFrom(_, _, _)
SortFrom(order, s, done) ==
  IF s = <<>> THEN done
  ELSE SortFrom(order, Tail(s), InsertSorted(order, Head(s), done))

\* the payload taken in the order it arrives in
SortSkipped(order, s) == s

Sort(order, s) == SortFrom(order, s, <<>>)

(* ------------------------------ reducer -------------------------------- *)

initialState == [type |-> "NeverLoaded"]

NewAcc == [total |-> 0, map |-> <<>>]

\* the reducer step without its early return on size 0
generateCalculatedOrderDetailsKeepsZero(acc, pair) ==
  LET total == acc.total + asNumber(pair[2])
  IN [total |-> total,
      map |-> MapSet(acc.map, pair[1],
                     [type |-> "CalculatedDetails", price |-> pair[1],
                      size |-> pair[2], total |-> asTotal(total)])]

\* reducer step over a [price, size] pair of a snapshot
generateCalculatedOrderDetails(acc, pair) ==
  IF pair[2] = 0 THEN acc
  ELSE LET total == acc.total + asNumber(pair[2])
       IN [total |-> total,
           map |-> MapSet(acc.map, pair[1],
                          [type |-> "CalculatedDetails", price |-> pair[1],
                           size |-> pair[2], total |-> asTotal(total)])]

\* the reducer step keeping the total a CalculatedOrderDetails entry already has
generateCalculatedOrderDetailsFromExistingKeepsTotal(acc, entry) ==
  IF entry[2].size = 0 THEN acc
  ELSE LET total == acc.total + asNumber(entry[2].size)
       IN [total |-> total,
           map |-> MapSet(acc.map, entry[1],
                          [type |-> "CalculatedDetails", price |-> entry[1],
                           size |-> entry[2].size,
                           total |-> IF entry[2].type = "CalculatedDetails"
                                     THEN entry[2].total ELSE asTotal(total)])]

\* reducer step over a [price, RawDetails | CalculatedOrderDetails] map entry
generateCalculatedOrderDetailsFromExisting(acc, entry) ==
  IF entry[2].size = 0 THEN acc
  ELSE LET total == acc.total + asNumber(entry[2].size)
       IN [total |-> total,
           map |-> MapSet(acc.map, entry[1],
                          [type |-> "CalculatedDetails", price |-> entry[1],
                           size |-> entry[2].size, total |-> asTotal(total)])]

\* payload.asks.sort(...).reduce(generateCalculatedOrderDetails, acc)
RECURSIVE ReducePairs(_, _)
ReducePairs(pairs, acc) ==
  IF pairs = <<>> THEN acc
  ELSE ReducePairs(Tail(pairs), generateCalculatedOrderDetails(acc, Head(pairs)))

\* Array.from(tmp.entries()).sort(...).reduce(generateCalculatedOrderDetailsFromExisting, acc)
RECURSIVE ReduceEntries(_, _)
ReduceEntries(entries, acc) ==
  IF entries = <<>> THEN acc
  ELSE ReduceEntries(Tail(entries),
                     generateCalculatedOrderDetailsFromExisting(acc, Head(entries)))

Returned(st) == [outcome |-> "returned", value |-> st]
Thrown(err) == [outcome |-> err]

handleSnapshotReceived(a, prev) ==
  LET asksAcc == ReducePairs(Sort("asc", a.payload.asks), NewAcc)
      bidsAcc == ReducePairs(Sort("desc", a.payload.bids), NewAcc)
      asks == asksAcc.map
      bids == bidsAcc.map
  IN Returned(
       [type |-> "Connected",
        numLevels |-> a.payload.numLevels,
        productId |-> a.payload.product_id,
        asks |-> asks,
        bids |-> bids,
        maxTotal |->
          [lastVisibleAsksIndex |->
             IF prev.type = "Connected" THEN prev.maxTotal.lastVisibleAsksIndex
             ELSE Len(asks) - 1,
           lastVisibleBidsIndex |->
             IF prev.type = "Connected" THEN prev.maxTotal.lastVisibleBidsIndex
             ELSE Len(bids) - 1,
           totalValue |-> Max(asksAcc.total, bidsAcc.total)]])

\* Array.from(map.entries()): the [key, value] tuples in insertion order
Entries(m) == [i \in 1..Len(m) |-> <<m[i].price, m[i]>>]

\* payload.asks.forEach of handleDataUpdate: size 0 deletes, any other size upserts
RECURSIVE MergeAsks(_, _)
MergeAsks(tmp, pairs) ==
  IF pairs = <<>> THEN tmp
  ELSE LET price == Head(pairs)[1]
           size == Head(pairs)[2]
       IN MergeAsks(IF size = 0 THEN MapDelete(tmp, price)
                    ELSE MapSet(tmp, price,
                                [type |-> "RawDetails", price |-> price, size |-> size]),
                    Tail(pairs))

\* payload.bids.forEach of handleDataUpdate: size 0 returns early, any other size upserts
RECURSIVE MergeBids(_, _)
MergeBids(tmp, pairs) ==
  IF pairs = <<>> THEN tmp
  ELSE LET price == Head(pairs)[1]
           size == Head(pairs)[2]
       IN MergeBids(IF size = 0 THEN tmp
                    ELSE MapSet(tmp, price,
                                [type |-> "RawDetails", price |-> price, size |-> size]),
                    Tail(pairs))

\* Array.from(map.values())[index]: defined for 0 <= index < size, else undefined
Defined(m, index) == index >= 0 /\ index < Len(m)
ValueAt(m, index) == m[index + 1]

\* the asks of handleDataUpdate: the previous map overlaid, sorted and summed again
DeltaAsks(a, prev) ==
  ReduceEntries(Sort("asc", Entries(MergeAsks(prev.asks, a.payload.asks))), NewAcc).map

\* the bids of handleDataUpdate
DeltaBids(a, prev) ==
  ReduceEntries(Sort("desc", Entries(MergeBids(prev.bids, a.payload.bids))), NewAcc).map

\* the delta putting both cursors on the last rows of the new sides
handleDataUpdateResetsCursors(a, prev) ==
  IF ~assert(prev.type = "Connected") THEN Thrown("AssertionError")
  ELSE
  LET asks == DeltaAsks(a, prev)
      bids == DeltaBids(a, prev)
  IN IF asks = <<>> \/ bids = <<>> THEN Thrown("TypeError")
     ELSE Returned(
            [prev EXCEPT !.asks = asks, !.bids = bids,
                         !.maxTotal =
                            [lastVisibleAsksIndex |-> Len(asks) - 1,
                             lastVisibleBidsIndex |-> Len(bids) - 1,
                             totalValue |-> Max(bids[Len(bids)].total,
                                                asks[Len(asks)].total)]])

\* the delta applied to empty sides when there is no snapshot yet
handleDataUpdateFabricates(a, prev) ==
  LET base == IF prev.type = "Connected" THEN prev
              ELSE [type |-> "Connected", numLevels |-> 0, productId |-> "",
                    asks |-> <<>>, bids |-> <<>>,
                    maxTotal |-> [lastVisibleAsksIndex |-> 0, lastVisibleBidsIndex |-> 0,
                                  totalValue |-> 0]]
      asks == DeltaAsks(a, base)
      bids == DeltaBids(a, base)
      bidsAt == Min(base.maxTotal.lastVisibleBidsIndex, Len(bids) - 1)
      asksAt == Min(base.maxTotal.lastVisibleAsksIndex, Len(asks) - 1)
  IN IF ~Defined(bids, bidsAt) \/ ~Defined(asks, asksAt) THEN Thrown("TypeError")
     ELSE Returned(
            [base EXCEPT !.asks = asks, !.bids = bids,
                         !.maxTotal.totalValue =
                            Max(ValueAt(bids, bidsAt).total, ValueAt(asks, asksAt).total)])

handleDataUpdate(a, prev) ==
  IF ~assert(prev.type = "Connected") THEN Thrown("AssertionError")
  ELSE
  LET asks == DeltaAsks(a, prev)
      bids == DeltaBids(a, prev)
      bidsAt == Min(prev.maxTotal.lastVisibleBidsIndex, Len(bids) - 1)
      asksAt == Min(prev.maxTotal.lastVisibleAsksIndex, Len(asks) - 1)
  IN IF ~Defined(bids, bidsAt) \/ ~Defined(asks, asksAt) THEN Thrown("TypeError")
     ELSE Returned(
            [prev EXCEPT !.asks = asks, !.bids = bids,
                         !.maxTotal.totalValue =
                            Max(ValueAt(bids, bidsAt).total, ValueAt(asks, asksAt).total)])

\* the cursor update storing each index under the other side's name
handleLastVisibleItemIndexChangeSwapped(bidsIndex, asksIndex, prev) ==
  LET bidsAt == Min(bidsIndex, Len(prev.bids) - 1)
      asksAt == Min(asksIndex, Len(prev.asks) - 1)
  IN IF ~Defined(prev.bids, bidsAt) \/ ~Defined(prev.asks, asksAt) THEN Thrown("TypeError")
     ELSE Returned(
            [prev EXCEPT !.maxTotal =
               [lastVisibleBidsIndex |-> asksIndex,
                lastVisibleAsksIndex |-> bidsIndex,
                totalValue |-> Max(ValueAt(prev.bids, bidsAt).total,
                                   ValueAt(prev.asks, asksAt).total)]])

handleLastVisibleItemIndexChange(bidsIndex, asksIndex, prev) ==
  LET bidsAt == Min(bidsIndex, Len(prev.bids) - 1)
      asksAt == Min(asksIndex, Len(prev.asks) - 1)
  IN IF ~Defined(prev.bids, bidsAt) \/ ~Defined(prev.asks, asksAt) THEN Thrown("TypeError")
     ELSE Returned(
            [prev EXCEPT !.maxTotal =
               [lastVisibleBidsIndex |-> bidsIndex,
                lastVisibleAsksIndex |-> asksIndex,
                totalValue |-> Max(ValueAt(prev.bids, bidsAt).total,
                                   ValueAt(prev.asks, asksAt).total)]])

\* the bids cursor update returning the state it got when there is no data yet
handleUpdateLastVisibleBidsIndexChangeUnasserted(bidsIndex, prev) ==
  IF prev.type # "Connected" THEN Returned(prev)
  ELSE handleLastVisibleItemIndexChange(bidsIndex, prev.maxTotal.lastVisibleAsksIndex, prev)

handleUpdateLastVisibleBidsIndexChange(bidsIndex, prev) ==
  IF ~assert(prev.type = "Connected") THEN Thrown("AssertionError")
  ELSE handleLastVisibleItemIndexChange(bidsIndex, prev.maxTotal.lastVisibleAsksIndex, prev)

handleUpdateLastVisibleAsksIndexChange(asksIndex, prev) ==
  IF ~assert(prev.type = "Connected") THEN Thrown("AssertionError")
  ELSE handleLastVisibleItemIndexChange(prev.maxTotal.lastVisibleBidsIndex, asksIndex, prev)

\* the switch without the case of the three informational responses
_orderBookReducerWithoutInfoCase(previousState, a) ==
  CASE a.type = "OpenStream" -> Returned(previousState)
    [] a.type = "CloseStream" -> Returned(previousState)
    [] a.type = "SnapshotReceived" -> handleSnapshotReceived(a, previousState)
    [] a.type = "DataUpdate" -> handleDataUpdate(a, previousState)
    [] a.type \in {"SocketConnected", "SocketDisconnected"} -> Returned(previousState)
    [] a.type = "UpdateBidsLastVisibleIndex" ->
         handleUpdateLastVisibleBidsIndexChange(a.index, previousState)
    [] a.type = "UpdateAsksLastVisibleIndex" ->
         handleUpdateLastVisibleAsksIndexChange(a.index, previousState)
    [] OTHER -> [outcome |-> "undefined"]

\* the switch without the case of the two socket events
_orderBookReducerWithoutSocketCase(previousState, a) ==
  CASE a.type = "OpenStream" -> Returned(previousState)
    [] a.type = "CloseStream" -> Returned(previousState)
    [] a.type = "SnapshotReceived" -> handleSnapshotReceived(a, previousState)
    [] a.type = "DataUpdate" -> handleDataUpdate(a, previousState)
    [] a.type = "UpdateBidsLastVisibleIndex" ->
         handleUpdateLastVisibleBidsIndexChange(a.index, previousState)
    [] a.type = "UpdateAsksLastVisibleIndex" ->
         handleUpdateLastVisibleAsksIndexChange(a.index, previousState)
    [] a.type \in {"UnsupportedBackendResponse", "InfoReceived",
                   "SubscribeConfirmationReceived"} -> Returned(previousState)
    [] OTHER -> [outcome |-> "undefined"]

\* the switch over action.type; a type without a case yields undefined
_orderBookReducer(previousState, a) ==
  CASE a.type = "OpenStream" -> Returned(previousState)
    [] a.type = "CloseStream" -> Returned(previousState)
    [] a.type = "SnapshotReceived" -> handleSnapshotReceived(a, previousState)
    [] a.type = "DataUpdate" -> handleDataUpdate(a, previousState)
    [] a.type \in {"SocketConnected", "SocketDisconnected"} -> Returned(previousState)
    [] a.type = "UpdateBidsLastVisibleIndex" ->
         handleUpdateLastVisibleBidsIndexChange(a.index, previousState)
    [] a.type = "UpdateAsksLastVisibleIndex" ->
         handleUpdateLastVisibleAsksIndexChange(a.index, previousState)
    [] a.type \in {"UnsupportedBackendResponse", "InfoReceived",
                   "SubscribeConfirmationReceived"} -> Returned(previousState)
    [] OTHER -> [outcome |-> "undefined"]

\* _orderBookReducer(previousState, action) ?? initialState
orderBookReducer(previousState, a) ==
  LET r == _orderBookReducer(previousState, a)
  IN IF r.outcome = "undefined" THEN Returned(initialState) ELSE r

(* ------------------------------- store --------------------------------- *)

\* no price occurs twice in a payload list
UniquePrices(pairs) ==
  \A i, j \in 1..Len(pairs) : pairs[i][1] = pairs[j][1] => i = j

HasPayload(a) == a.type \in {"SnapshotReceived", "DataUpdate"}

UniquePayload(a) ==
  HasPayload(a) => UniquePrices(a.payload.asks) /\ UniquePrices(a.payload.bids)

\* The action object after the reducer has run on it.  Array.prototype.sort sorts in
\* place and handleSnapshotReceived calls it on payload.asks and payload.bids
\* themselves; handleDataUpdate only reads its payload (forEach) and sorts the
\* fresh array of Array.from.  Neither handler writes to the maps of prevState:
\* the snapshot fills new Map(), the delta a copy, new Map(prevState.asks).
ActionAfterCall(a) ==
  IF a.type = "SnapshotReceived"
  THEN [a EXCEPT !.payload.asks = Sort("asc", @), !.payload.bids = Sort("desc", @)]
  ELSE a

\* store.dispatch(a): the store takes the returned state; a throw leaves it as it was.
\* prevState, action and outcome record one reducer call, its two arguments and how it
\* ended; actionAfter is the action object as the call leaves it.  Any dispatch may be the recorded one, and the record is taken once: it
\* stays at the @@INIT call of createStore until then, and the dispatch it records is
\* the last one of the behaviour.
\* uniqueSoFar is a history variable: every payload list dispatched so far had
\* unique prices.
Dispatch(a) ==
  LET r == orderBookReducer(state, a)
  IN /\ action.type = "@@INIT"
     /\ state' = IF r.outcome = "returned" THEN r.value ELSE state
     /\ uniqueSoFar' = (uniqueSoFar /\ UniquePayload(a))
     /\ \/ UNCHANGED <<prevState, action, actionAfter, outcome>>
        \/ /\ prevState' = state
           /\ action' = a
           /\ actionAfter' = ActionAfterCall(a)
           /\ outcome' = r.outcome

SnapshotPayloads ==
  {[asks |-> sp[1], bids |-> sp[2], product_id |-> pid, numLevels |-> n] :
     sp \in SidePayloads, pid \in ProductIds, n \in NumLevelsValues}

DeltaPayloads == {[asks |-> sp[1], bids |-> sp[2]] : sp \in SidePayloads}

OpenStream == Dispatch([type |-> "OpenStream"])
CloseStream == Dispatch([type |-> "CloseStream"])
SnapshotReceived ==
  \E p \in SnapshotPayloads : Dispatch([type |-> "SnapshotReceived", payload |-> p])
DataUpdate ==
  \E p \in DeltaPayloads : Dispatch([type |-> "DataUpdate", payload |-> p])
SocketConnected == Dispatch([type |-> "SocketConnected"])
SocketDisconnected == Dispatch([type |-> "SocketDisconnected"])
UpdateBidsLastVisibleIndex ==
  \E i \in 0..MaxIndex : Dispatch([type |-> "UpdateBidsLastVisibleIndex", index |-> i])
UpdateAsksLastVisibleIndex ==
  \E i \in 0..MaxIndex : Dispatch([type |-> "UpdateAsksLastVisibleIndex", index |-> i])
UnsupportedBackendResponse == Dispatch([type |-> "UnsupportedBackendResponse"])
InfoReceived == Dispatch([type |-> "InfoReceived"])
SubscribeConfirmationReceived == Dispatch([type |-> "SubscribeConfirmationReceived"])
\* an action of another slice of the store, which the switch has no case for
UnknownAction == Dispatch([type |-> "Unknown"])

\* createStore dispatches @@INIT on an undefined state
Init ==
  /\ state = initialState
  /\ prevState = initialState
  /\ action = [type |-> "@@INIT"]
  /\ actionAfter = [type |-> "@@INIT"]
  /\ outcome = "returned"
  /\ uniqueSoFar = TRUE

Next ==
  \/ OpenStream
  \/ CloseStream
  \/ SnapshotReceived
  \/ DataUpdate
  \/ SocketConnected
  \/ SocketDisconnected
  \/ UpdateBidsLastVisibleIndex
  \/ UpdateAsksLastVisibleIndex
  \/ UnsupportedBackendResponse
  \/ InfoReceived
  \/ SubscribeConfirmationReceived
  \/ UnknownAction

Spec == Init /\ [][Next]_vars

\* The exported reducer called on any value of its parameter type OrderBookState:
\* the two variants without data, and a Disconnected state holding what a first
\* snapshot produced.
Disconnected(p) ==
  [handleSnapshotReceived([type |-> "SnapshotReceived", payload |-> p],
                          initialState).value EXCEPT !.type = "Disconnected"]

TypedStates ==
  {initialState, [type |-> "ConnectedWaitingForData"]}
    \cup {Disconnected(p) : p \in {q \in SnapshotPayloads : UniquePrices(q.asks) /\ UniquePrices(q.bids)}}

InitTyped ==
  /\ state \in TypedStates
  /\ prevState = initialState
  /\ action = [type |-> "@@INIT"]
  /\ actionAfter = [type |-> "@@INIT"]
  /\ outcome = "returned"
  /\ uniqueSoFar = TRUE

SpecTyped == InitTyped /\ [][Next]_vars

(* --------------------------- properties -------------------------------- *)

Connected(st) == st.type = "Connected"

\* the recorded call is of type t
Called(t) == action.type = t

\* the (price, size) pairs a side holds
Levels(m) == {<<m[i].price, m[i].size>> : i \in 1..Len(m)}
PricesOf(m) == {m[i].price : i \in 1..Len(m)}

\* the (price, size) pairs of a payload list with a size other than 0
NonZero(pairs) == {pairs[i] : i \in {j \in 1..Len(pairs) : pairs[j][2] # 0}}

\* strictly ascending ("asc") or strictly descending ("desc") by price
InOrder(m, order) ==
  \A i \in 1..(Len(m) - 1) :
    IF order = "asc" THEN m[i].price < m[i + 1].price ELSE m[i].price > m[i + 1].price

RECURSIVE SumOfSizes(_, _)
SumOfSizes(m, i) == IF i = 0 THEN 0 ELSE m[i].size + SumOfSizes(m, i - 1)

PrefixTotals(m) == \A i \in 1..Len(m) : m[i].total = SumOfSizes(m, i)

Canonical(m, order) == InOrder(m, order) /\ PrefixTotals(m)

\* the total at the cursor clamped to size-1, 0 for an empty side
ClampedTotal(m, cursor) ==
  IF Len(m) = 0 THEN 0 ELSE m[Min(cursor, Len(m) - 1) + 1].total

\* C1: in every Active state the scale value is the maximum of the asks total and
\* the bids total at their cursors clamped to size-1 (stated for the states whose
\* cursors point at a row, that is, are not negative on a side that has rows).
C1_ScaleIsMaxOfClampedTotals ==
  (/\ Connected(state)
   /\ (state.asks # <<>> => state.maxTotal.lastVisibleAsksIndex >= 0)
   /\ (state.bids # <<>> => state.maxTotal.lastVisibleBidsIndex >= 0))
  => state.maxTotal.totalValue =
       Max(ClampedTotal(state.asks, state.maxTotal.lastVisibleAsksIndex),
           ClampedTotal(state.bids, state.maxTotal.lastVisibleBidsIndex))

\* C2: with unique prices in every payload list so far, an Active state holds its
\* asks strictly ascending and its bids strictly descending by price, each total
\* being the sum of the sizes up to and including its level, hence non-decreasing.
C2_CanonicalOrderAndTotals ==
  (uniqueSoFar /\ Connected(state))
  => /\ Canonical(state.asks, "asc")
     /\ Canonical(state.bids, "desc")
     /\ \A i \in 1..(Len(state.asks) - 1) : state.asks[i].total <= state.asks[i + 1].total
     /\ \A i \in 1..(Len(state.bids) - 1) : state.bids[i].total <= state.bids[i + 1].total

\* a delta has grown both sides to two levels, given out of canonical order
C2_Witness ==
  /\ uniqueSoFar
  /\ Called("DataUpdate")
  /\ outcome = "returned"
  /\ action.payload.asks # <<>>
  /\ action.payload.bids # <<>>
  /\ Len(state.asks) = 2
  /\ Len(state.bids) = 2
  /\ state.asks[2].price = action.payload.asks[1][1]
  /\ action.payload.bids[1][1] < prevState.bids[1].price

ExampleSnapshot ==
  [type |-> "SnapshotReceived",
   payload |-> [asks |-> <<<<101, 2>>, <<100, 3>>>>, bids |-> <<<<99, 1>>, <<98, 4>>>>,
                product_id |-> "PI_XBTUSD", numLevels |-> 2]]

Level(price, size, total) ==
  [type |-> "CalculatedDetails", price |-> price, size |-> size, total |-> total]

ExampleHolds ==
  LET st == orderBookReducer(initialState, ExampleSnapshot).value
  IN /\ st.asks = <<Level(100, 3, 3), Level(101, 2, 5)>>
     /\ st.bids = <<Level(99, 1, 1), Level(98, 4, 5)>>

\* C3: a SnapshotReceived with unique prices, on any previous state, returns an
\* Active state whose sides hold exactly the snapshot's pairs of size > 0, asks
\* strictly ascending and bids strictly descending, totals being prefix sums; the
\* example of the specification comes out as stated.
C3_SnapshotAggregatesFromScratch ==
  (Called("SnapshotReceived") /\ UniquePayload(action))
  => /\ outcome = "returned"
     /\ Connected(state)
     /\ Levels(state.asks) = NonZero(action.payload.asks)
     /\ Levels(state.bids) = NonZero(action.payload.bids)
     /\ Canonical(state.asks, "asc")
     /\ Canonical(state.bids, "desc")
     /\ ExampleHolds

\* an unsorted two-level asks snapshot replaces an Active state that had bids
C3_Witness ==
  /\ Called("SnapshotReceived")
  /\ Connected(prevState)
  /\ prevState.bids # <<>>
  /\ action.payload.asks = <<<<2, 1>>, <<1, 2>>>>
  /\ state.asks = <<Level(1, 2, 2), Level(2, 1, 3)>>
  /\ state.bids = <<>>

\* a payload entry of size 0
ZeroEntries(pairs) == {pairs[i][1] : i \in {j \in 1..Len(pairs) : pairs[j][2] = 0}}

\* C4: a returned DeltaReceived leaves no price on a side for which its list for
\* that side (unique prices) has a size-0 entry, on the asks and on the bids side
\* alike: a present price is removed, an absent one stays absent.
C4_ZeroSizeRemovesOnBothSides ==
  (Called("DataUpdate") /\ outcome = "returned" /\ UniquePayload(action))
  => /\ ZeroEntries(action.payload.asks) \cap PricesOf(state.asks) = {}
     /\ ZeroEntries(action.payload.bids) \cap PricesOf(state.bids) = {}

\* the prices with exactly one entry in the list, that entry having a size other than 0
SingleNonZero(pairs) ==
  {pairs[i] : i \in {j \in 1..Len(pairs) :
                       /\ pairs[j][2] # 0
                       /\ \A k \in 1..Len(pairs) : pairs[k][1] = pairs[j][1] => k = j}}

C6_NoZeroSizeLevel ==
  Connected(state)
  => /\ \A i \in 1..Len(state.asks) : state.asks[i].size # 0
     /\ \A i \in 1..Len(state.bids) : state.bids[i].size # 0

\* a snapshot lists a zero-size ask next to a real one, and only the real one is held
C6_Witness ==
  /\ Called("SnapshotReceived")
  /\ action.payload.asks = <<<<1, 0>>, <<2, 1>>>>
  /\ state.asks = <<Level(2, 1, 1)>>

NeedsData == {"DataUpdate", "UpdateBidsLastVisibleIndex", "UpdateAsksLastVisibleIndex"}

\* C7: a DeltaReceived or cursor update on a NeverLoaded or WaitingForData state
\* ends in an error and returns no state; the store keeps the previous state.
C7_FailsFastWithoutSnapshot ==
  (action.type \in NeedsData /\ prevState.type \in {"NeverLoaded", "ConnectedWaitingForData"})
  => /\ outcome = "AssertionError"
     /\ state = prevState

\* a bids cursor update reaches a state that waits for its first snapshot
C7_Witness ==
  /\ Called("UpdateBidsLastVisibleIndex")
  /\ prevState.type = "ConnectedWaitingForData"
  /\ outcome = "AssertionError"

\* C8: on an Active state with an empty side, DeltaReceived and both cursor updates
\* return a state, and its scale value counts 0 for a side that is empty.
C8_EmptySideContributesZero ==
  (/\ action.type \in NeedsData
   /\ Connected(prevState)
   /\ (prevState.asks = <<>> \/ prevState.bids = <<>>))
  => /\ outcome = "returned"
     /\ state.maxTotal.totalValue =
          Max(ClampedTotal(state.asks, state.maxTotal.lastVisibleAsksIndex),
              ClampedTotal(state.bids, state.maxTotal.lastVisibleBidsIndex))

\* the sides and cursors the recorded call computes the scale from
ScaleAsks == IF Called("DataUpdate") THEN DeltaAsks(action, prevState) ELSE prevState.asks
ScaleBids == IF Called("DataUpdate") THEN DeltaBids(action, prevState) ELSE prevState.bids
ScaleAsksIndex ==
  IF Called("UpdateAsksLastVisibleIndex") THEN action.index
  ELSE prevState.maxTotal.lastVisibleAsksIndex
ScaleBidsIndex ==
  IF Called("UpdateBidsLastVisibleIndex") THEN action.index
  ELSE prevState.maxTotal.lastVisibleBidsIndex

AsksCursorBeyond == ScaleAsks # <<>> /\ ScaleAsksIndex > Len(ScaleAsks) - 1
BidsCursorBeyond == ScaleBids # <<>> /\ ScaleBidsIndex > Len(ScaleBids) - 1

\* C9: when a cursor exceeds size-1 of its non-empty side, the scale computation of
\* DeltaReceived and of the cursor updates returns, using the total of that side's
\* last level.
C9_CursorBeyondEndUsesLastLevel ==
  (/\ action.type \in NeedsData
   /\ Connected(prevState)
   /\ (AsksCursorBeyond \/ BidsCursorBeyond))
  => /\ outcome = "returned"
     /\ AsksCursorBeyond =>
          state.maxTotal.totalValue =
            Max(ScaleAsks[Len(ScaleAsks)].total, ClampedTotal(ScaleBids, ScaleBidsIndex))
     /\ BidsCursorBeyond =>
          state.maxTotal.totalValue =
            Max(ScaleBids[Len(ScaleBids)].total, ClampedTotal(ScaleAsks, ScaleAsksIndex))

\* C10: SnapshotReceived keeps both cursors of an Active or Suspended previous state
\* and sets them to size-1 of the new sides after NeverLoaded or WaitingForData.
C10_SnapshotCursors ==
  Called("SnapshotReceived")
  => IF prevState.type \in {"Connected", "Disconnected"}
     THEN /\ state.maxTotal.lastVisibleAsksIndex = prevState.maxTotal.lastVisibleAsksIndex
          /\ state.maxTotal.lastVisibleBidsIndex = prevState.maxTotal.lastVisibleBidsIndex
     ELSE /\ state.maxTotal.lastVisibleAsksIndex = Len(state.asks) - 1
          /\ state.maxTotal.lastVisibleBidsIndex = Len(state.bids) - 1

\* the recorded call is a dispatch, not the @@INIT call the record starts at
Recorded == action.type # "@@INIT"

\* C11: an event of a type the switch has no case for is no error and returns the
\* previous state unchanged, whatever the previous state is.
C11_UnknownEventKeepsState ==
  Called("Unknown") => outcome = "returned" /\ state = prevState

NoOpTypes ==
  {"OpenStream", "CloseStream", "SocketConnected", "SocketDisconnected",
   "InfoReceived", "SubscribeConfirmationReceived", "UnsupportedBackendResponse"}

\* C12: the seven events without data return the previous state unchanged, with
\* the same variant, sides, cursors, scale value, productId and numLevels.
C12_NoOpEventsKeepState ==
  action.type \in NoOpTypes => outcome = "returned" /\ state = prevState

\* an informational response arrives at an Active state holding levels on both sides
C12_Witness ==
  /\ Called("InfoReceived")
  /\ Connected(prevState)
  /\ prevState.asks # <<>>
  /\ prevState.bids # <<>>
  /\ state = prevState

\* everything of an Active state but its maxTotal
SameData(a, b) ==
  /\ a.type = b.type
  /\ a.asks = b.asks
  /\ a.bids = b.bids
  /\ a.productId = b.productId
  /\ a.numLevels = b.numLevels

NoData == {"NeverLoaded", "ConnectedWaitingForData"}

\* C14: a dispatch that takes a NeverLoaded or WaitingForData state to an Active
\* state is a SnapshotReceived; no other event produces an Active state from them.
C14_ActiveOnlyViaSnapshot ==
  (Recorded /\ prevState.type \in NoData /\ Connected(state))
  => Called("SnapshotReceived")

\* the first snapshot reaches a state that waits for data and makes it Active
C14_Witness ==
  /\ Called("SnapshotReceived")
  /\ prevState.type = "ConnectedWaitingForData"
  /\ Connected(state)
  /\ state.asks # <<>>

\* C15: a DeltaReceived or cursor update on a Suspended state that holds levels on
\* both sides returns an Active state, as it does on the same data in an Active state.
C15_SuspendedAcceptsUpdates ==
  (/\ action.type \in NeedsData
   /\ prevState.type = "Disconnected"
   /\ prevState.asks # <<>>
   /\ prevState.bids # <<>>)
  => outcome = "returned" /\ Connected(state)

\* every action the store is sent
Actions ==
  {[type |-> t] : t \in NoOpTypes \cup {"Unknown"}}
    \cup {[type |-> "SnapshotReceived", payload |-> p] : p \in SnapshotPayloads}
    \cup {[type |-> "DataUpdate", payload |-> p] : p \in DeltaPayloads}
    \cup {[type |-> t, index |-> i] :
            t \in {"UpdateBidsLastVisibleIndex", "UpdateAsksLastVisibleIndex"},
            i \in 0..MaxIndex}

\* the state a dispatches to st, when the reducer returns one
Yields(st, a, next) ==
  LET r == orderBookReducer(st, a)
  IN r.outcome = "returned" /\ r.value = next

\* C16: some event takes an Active state to the Suspended state with the same
\* sides, productId, numLevels and VisibleWindow (so that Suspended is reachable
\* from NeverLoaded), and some event takes that Suspended state back.
C16_SomeEventSuspendsAndResumes ==
  Connected(state)
  => /\ \E a \in Actions : Yields(state, a, [state EXCEPT !.type = "Disconnected"])
     /\ \E a \in Actions : Yields([state EXCEPT !.type = "Disconnected"], a, state)

\* no state the store reaches is Suspended
NeverSuspended == state.type # "Disconnected"

\* every entry of the list restates a level the side holds; true of the empty list
Restates(pairs, m) == \A i \in 1..Len(pairs) : pairs[i] \in Levels(m)

\* C17: on an Active state with levels on both sides (reached with unique prices
\* in every payload list), a DeltaReceived whose lists are empty or restate levels
\* the sides hold returns the same sides, with the same prices, sizes, order and
\* totals, and the same scale value.
C17_NoOpDeltaIsIdempotent ==
  (/\ Called("DataUpdate")
   /\ uniqueSoFar
   /\ Connected(prevState)
   /\ prevState.asks # <<>>
   /\ prevState.bids # <<>>
   /\ Restates(action.payload.asks, prevState.asks)
   /\ Restates(action.payload.bids, prevState.bids))
  => /\ outcome = "returned"
     /\ state.asks = prevState.asks
     /\ state.bids = prevState.bids
     /\ state.maxTotal.totalValue = prevState.maxTotal.totalValue

\* the types the switch of _orderBookReducer has a case for
RecognisedTypes == NoOpTypes \cup NeedsData \cup {"SnapshotReceived"}

Variants == {"NeverLoaded", "ConnectedWaitingForData", "Connected", "Disconnected"}

C19_PayloadNotModified ==
  HasPayload(action)
  => /\ actionAfter.payload.asks = action.payload.asks
     /\ actionAfter.payload.bids = action.payload.bids

\* C20: from an Active state, every event of a recognised type that returns
\* yields an Active state again, and a returned DeltaReceived keeps both cursors,
\* productId and numLevels; so no sequence of recognised events leads from an
\* Active state back to NeverLoaded or WaitingForData.
C20_StaysActive ==
  (/\ action.type \in RecognisedTypes
   /\ Connected(prevState)
   /\ outcome = "returned")
  => /\ Connected(state)
     /\ Called("DataUpdate")
        => /\ state.maxTotal.lastVisibleAsksIndex = prevState.maxTotal.lastVisibleAsksIndex
           /\ state.maxTotal.lastVisibleBidsIndex = prevState.maxTotal.lastVisibleBidsIndex
           /\ state.productId = prevState.productId
           /\ state.numLevels = prevState.numLevels

\* a delta adds a second ask behind the one the asks cursor stays on
C20_Witness ==
  /\ Called("DataUpdate")
  /\ Connected(prevState)
  /\ outcome = "returned"
  /\ Len(prevState.asks) = 1
  /\ Len(state.asks) = 2
  /\ state.maxTotal.lastVisibleAsksIndex = 0
  /\ state.productId = "PI_ETHUSD"

====
